---- MODULE Spec2Model ----
(***************************************************************************)
(* Model of src/doselog.py: the route registry, the dose-string parser,    *)
(* and the User entry store with its filter chain and aggregate readers.   *)
(*                                                                         *)
(* Python strings that are parsed are sequences of one-character strings;  *)
(* tokens taken out of them are joined into TLA+ strings.  Floats are      *)
(* exact rationals [num, den] in lowest terms.  A datetime is an integer   *)
(* tick; its calendar year is YearOf(t).                                   *)
(***************************************************************************)
EXTENDS Integers, Sequences, FiniteSets, TLC

VARIABLES entries, filtered_entries, now, call, pre, same, outcome

vars == <<entries, filtered_entries, now, call, pre, same, outcome>>

(***************************************************************************)
(* Bounds of the model.                                                    *)
(***************************************************************************)
MaxEntries == 2

MaxTime == 1

TicksPerYear == 1

MaxView == 3

MaxN == 2

(***************************************************************************)
(* Route registry.                                                         *)
(***************************************************************************)
\* ADMINISTRATION_METHODS with "injected" listed under intramuscular as well.
ADMINISTRATION_METHODS_Shared ==
  [ oral |-> <<"oral", "swallowed", "chewed", "@ate">>,
    insufflation |-> <<"insufflation", "snorted", "intranasal", "nasal", "@sniffed">>,
    inhalation |-> <<"inhalation", "inhaled", "smoked", "vaporized">>,
    intravenous |-> <<"intravenous-injection", "intra-arterial", "injected", "@injected">>,
    intramuscular |-> <<"intramuscular-injection", "injected">>,
    subcutaneous |-> <<"subcutaneous-injection", "intradermal">>,
    rectal |-> <<"rectal", "intrarectal", "plugged", "@boofed">>,
    transdermal |-> <<"transdermal", "dermal", "applied", "topical">>,
    sublingual |-> <<"sublingual", "dissolved">>,
    buccal |-> <<"buccal">>,
    other |-> <<"intravaginal", "intrathecal", "intraperitoneal", "intraosseous",
                "intravitreal", "intrapleural", "intrapericardial", "intravesical",
                "intralesional", "ocular", "otic", "epidural", "absorbed",
                "administered">> ]

ADMINISTRATION_METHODS ==
  [ oral |-> <<"oral", "swallowed", "chewed", "@ate">>,
    insufflation |-> <<"insufflation", "snorted", "intranasal", "nasal", "@sniffed">>,
    inhalation |-> <<"inhalation", "inhaled", "smoked", "vaporized">>,
    intravenous |-> <<"intravenous-injection", "intra-arterial", "injected", "@injected">>,
    intramuscular |-> <<"intramuscular-injection">>,
    subcutaneous |-> <<"subcutaneous-injection", "intradermal">>,
    rectal |-> <<"rectal", "intrarectal", "plugged", "@boofed">>,
    transdermal |-> <<"transdermal", "dermal", "applied", "topical">>,
    sublingual |-> <<"sublingual", "dissolved">>,
    buccal |-> <<"buccal">>,
    other |-> <<"intravaginal", "intrathecal", "intraperitoneal", "intraosseous",
                "intravitreal", "intrapleural", "intrapericardial", "intravesical",
                "intralesional", "ocular", "otic", "epidural", "absorbed",
                "administered">> ]

\* Iteration order of the dict literal ADMINISTRATION_METHODS.
MethodOrder ==
  <<"oral", "insufflation", "inhalation", "intravenous", "intramuscular",
    "subcutaneous", "rectal", "transdermal", "sublingual", "buccal", "other">>

Range(s) == {s[i] : i \in 1..Len(s)}

AliasTokens == UNION {Range(ADMINISTRATION_METHODS[r]) : r \in DOMAIN ADMINISTRATION_METHODS}

\* The dict comprehension assigns alias -> standard in iteration order, so a
\* token listed under several routes keeps the last route that lists it.
ROUTE_ALIASES ==
  [a \in AliasTokens |->
     LET owners == {i \in 1..Len(MethodOrder) :
                      a \in Range(ADMINISTRATION_METHODS[MethodOrder[i]])}
         last == CHOOSE i \in owners : \A j \in owners : j <= i
     IN MethodOrder[last]]

(***************************************************************************)
(* Characters and string helpers.                                          *)
(***************************************************************************)
Digits == {"0", "1", "2", "3", "4", "5", "6", "7", "8", "9"}

LowerLetters ==
  {"a", "b", "c", "d", "e", "f", "g", "h", "i", "j", "k", "l", "m",
   "n", "o", "p", "q", "r", "s", "t", "u", "v", "w", "x", "y", "z"}

UpperLetters ==
  {"A", "B", "C", "D", "E", "F", "G", "H", "I", "J", "K", "L", "M",
   "N", "O", "P", "Q", "R", "S", "T", "U", "V", "W", "X", "Y", "Z"}

\* [a-zA-Z-]
AlphaHyphen == LowerLetters \cup UpperLetters \cup {"-"}

\* \w
WordChars == LowerLetters \cup UpperLetters \cup Digits \cup {"_"}

\* \s
Whitespace == {" ", "\t", "\n"}

DigitValue(c) ==
  CASE c = "0" -> 0 [] c = "1" -> 1 [] c = "2" -> 2 [] c = "3" -> 3
    [] c = "4" -> 4 [] c = "5" -> 5 [] c = "6" -> 6 [] c = "7" -> 7
    [] c = "8" -> 8 [] c = "9" -> 9

LowerPairs ==
  <<"a", "b", "c", "d", "e", "f", "g", "h", "i", "j", "k", "l", "m",
    "n", "o", "p", "q", "r", "s", "t", "u", "v", "w", "x", "y", "z">>

UpperPairs ==
  <<"A", "B", "C", "D", "E", "F", "G", "H", "I", "J", "K", "L", "M",
    "N", "O", "P", "Q", "R", "S", "T", "U", "V", "W", "X", "Y", "Z">>

\* str.lower() on one character.
LowerChar(c) ==
  IF c \in UpperLetters
  THEN LowerPairs[CHOOSE i \in 1..26 : UpperPairs[i] = c]
  ELSE c

RECURSIVE Join(_)
\* The Python string made of the characters cs.
Join(cs) == IF cs = <<>> THEN "" ELSE Head(cs) \o Join(Tail(cs))

\* str.lower()
Lower(cs) == [i \in 1..Len(cs) |-> LowerChar(cs[i])]

RECURSIVE SpanEnd(_, _, _)
\* First position at or after i whose character is not in class.
SpanEnd(s, i, class) ==
  IF i <= Len(s) /\ s[i] \in class THEN SpanEnd(s, i + 1, class) ELSE i

RECURSIVE SpanStart(_, _, _)
\* Last position at or before i whose character is not in class (0 if none).
SpanStart(s, i, class) ==
  IF i >= 1 /\ s[i] \in class THEN SpanStart(s, i - 1, class) ELSE i

\* str.strip()
Strip(s) ==
  LET b == SpanEnd(s, 1, Whitespace)
      e == SpanStart(s, Len(s), Whitespace)
  IN IF b > e THEN <<>> ELSE SubSeq(s, b, e)

(***************************************************************************)
(* Floats as exact rationals.                                              *)
(***************************************************************************)
RECURSIVE GCD(_, _)
GCD(a, b) == IF b = 0 THEN a ELSE GCD(b, a % b)

Abs(x) == IF x < 0 THEN -x ELSE x

Rat(n, d) ==
  LET g == GCD(Abs(n), Abs(d))
      sgn == IF d < 0 THEN -1 ELSE 1
  IN [num |-> sgn * (n \div g), den |-> sgn * (d \div g)]

RatAdd(a, b) == Rat(a.num * b.den + b.num * a.den, a.den * b.den)

RatMul(a, k) == Rat(a.num * k, a.den)

RatDiv(a, k) == Rat(a.num, a.den * k)

RatLeq(a, b) == a.num * b.den <= b.num * a.den

Zero == Rat(0, 1)

RECURSIVE DigitsValue(_)
DigitsValue(ds) ==
  IF ds = <<>> THEN 0
  ELSE DigitsValue(SubSeq(ds, 1, Len(ds) - 1)) * 10 + DigitValue(ds[Len(ds)])

RECURSIVE Pow10(_)
Pow10(k) == IF k = 0 THEN 1 ELSE 10 * Pow10(k - 1)

\* float() of a literal matched by \d+\.?\d*
Float(lit) ==
  LET p == SpanEnd(lit, 1, Digits)
      int == SubSeq(lit, 1, p - 1)
      frac == IF p <= Len(lit) THEN SubSeq(lit, p + 1, Len(lit)) ELSE <<>>
  IN Rat(DigitsValue(int) * Pow10(Len(frac)) + DigitsValue(frac), Pow10(Len(frac)))

(***************************************************************************)
(* parse_dose_string: the two regular expressions.  Every repeated class   *)
(* is followed by a character outside the class, so the greedy match is    *)
(* the only candidate and backtracking never finds another one.            *)
(***************************************************************************)
Units == <<"mg", "ug", "g", "ml">>

UnitChars(u) ==
  CASE u = "mg" -> <<"m", "g">> [] u = "ug" -> <<"u", "g">>
    [] u = "g" -> <<"g">> [] u = "ml" -> <<"m", "l">>

StartsWithAt(s, i, w) ==
  /\ i + Len(w) - 1 <= Len(s)
  /\ SubSeq(s, i, i + Len(w) - 1) = w

NoMatch == [ok |-> FALSE, groups |-> <<>>]

\* (\d+\.?\d*) starting at position i: the end of the literal, or i if none.
AmountEnd(s, i) ==
  LET p1 == SpanEnd(s, i, Digits)
      p2 == IF p1 <= Len(s) /\ s[p1] = "." THEN p1 + 1 ELSE p1
  IN IF p1 = i THEN i ELSE SpanEnd(s, p2, Digits)

\* (mg|ug|g|ml)\s+([a-zA-Z-]+) starting at i, with u the unit alternative:
\* the positions of the groups, ok only when all parts are non-empty.
UnitSubstance(s, i, u) ==
  LET q == i + Len(UnitChars(u))
      w1 == SpanEnd(s, q, Whitespace)
      a1 == SpanEnd(s, w1, AlphaHyphen)
  IN [ok |-> StartsWithAt(s, i, UnitChars(u)) /\ w1 > q /\ a1 > w1,
      sub |-> <<w1, a1 - 1>>, end |-> a1]

\* re.match(standard_pattern, s)
MatchStandard(s) ==
  LET p == AmountEnd(s, 1)
      Alt(u) ==
        LET m == UnitSubstance(s, p, u)
            w2 == SpanEnd(s, m.end, Whitespace)
            a2 == SpanEnd(s, w2, AlphaHyphen)
        IN [ok |-> m.ok /\ w2 > m.end /\ a2 > w2 /\ a2 = Len(s) + 1,
            groups |-> <<SubSeq(s, 1, p - 1), u,
                         SubSeq(s, m.sub[1], m.sub[2]),
                         SubSeq(s, w2, Len(s))>>]
      hits == {k \in 1..Len(Units) : Alt(Units[k]).ok}
  IN IF p = 1 \/ hits = {} THEN NoMatch
     ELSE Alt(Units[CHOOSE k \in hits : \A j \in hits : k <= j])

\* re.match(verb_pattern, s)
MatchVerb(s) ==
  LET v == SpanEnd(s, 2, WordChars)
      w0 == SpanEnd(s, v, Whitespace)
      p == AmountEnd(s, w0)
      Alt(u) ==
        LET m == UnitSubstance(s, p, u)
        IN [ok |-> m.ok /\ m.end = Len(s) + 1,
            groups |-> <<SubSeq(s, 1, v - 1), SubSeq(s, w0, p - 1), u,
                         SubSeq(s, m.sub[1], m.sub[2])>>]
      hits == {k \in 1..Len(Units) : Alt(Units[k]).ok}
  IN IF \/ Len(s) = 0
        \/ s[1] # "@"
        \/ v = 2
        \/ w0 = v
        \/ p = w0
        \/ hits = {}
     THEN NoMatch
     ELSE Alt(Units[CHOOSE k \in hits : \A j \in hits : k <= j])

Parsed(amount, unit, substance, route) ==
  [exc |-> "none", amount |-> amount, unit |-> unit,
   substance |-> substance, route |-> route]

DoseParsingError == [exc |-> "DoseParsingError", amount |-> Zero, unit |-> "",
                     substance |-> "", route |-> ""]

\* The two branches of parse_dose_string on the results of the two matches.
ParseMatches(std, vrb) ==
  IF std.ok
  THEN IF Join(std.groups[4]) \notin DOMAIN ROUTE_ALIASES
       THEN DoseParsingError
       ELSE Parsed(Float(std.groups[1]), std.groups[2],
                   Join(Lower(std.groups[3])), Join(std.groups[4]))
  ELSE IF vrb.ok
  THEN IF Join(vrb.groups[1]) \notin DOMAIN ROUTE_ALIASES
       THEN DoseParsingError
       ELSE Parsed(Float(vrb.groups[2]), vrb.groups[3],
                   Join(Lower(vrb.groups[4])), Join(vrb.groups[1]))
  ELSE DoseParsingError

\* parse_dose_string on dose_string.strip()
ParseStripped(s) == ParseMatches(MatchStandard(s), MatchVerb(s))

\* User.parse_dose_string
parse_dose_string(dose_string) == ParseStripped(Strip(dose_string))

(***************************************************************************)
(* Inputs.                                                                 *)
(***************************************************************************)
\* Dose strings logged while the filter chain is exercised.
StoreStrings ==
  { \* '20mg methamphetamine oral'
    <<"2", "0", "m", "g", " ", "m", "e", "t", "h", "a", "m", "p", "h", "e", "t", "a", "m", "i", "n", "e", " ", "o", "r", "a", "l">>,
    \* '0.4ug lsd sublingual'
    <<"0", ".", "4", "u", "g", " ", "l", "s", "d", " ", "s", "u", "b", "l", "i", "n", "g", "u", "a", "l">>,
    \* '20mg meth iv'
    <<"2", "0", "m", "g", " ", "m", "e", "t", "h", " ", "i", "v">>}

\* Standard-grammar dose strings, token by token (lead and trail are the
\* whitespace around the string).
StandardInputs ==
  { \* '20mg meth oral'
    [lead |-> <<>>,
     amt |-> <<"2", "0">>,
     unit |-> "mg",
     substance |-> <<"m", "e", "t", "h">>,
     route |-> <<"o", "r", "a", "l">>,
     trail |-> <<>>],
    \* '20000ug meth oral'
    [lead |-> <<>>,
     amt |-> <<"2", "0", "0", "0", "0">>,
     unit |-> "ug",
     substance |-> <<"m", "e", "t", "h">>,
     route |-> <<"o", "r", "a", "l">>,
     trail |-> <<>>],
    \* '0.02g Meth swallowed'
    [lead |-> <<>>,
     amt |-> <<"0", ".", "0", "2">>,
     unit |-> "g",
     substance |-> <<"M", "e", "t", "h">>,
     route |-> <<"s", "w", "a", "l", "l", "o", "w", "e", "d">>,
     trail |-> <<>>],
    \* '20ml meth chewed'
    [lead |-> <<>>,
     amt |-> <<"2", "0">>,
     unit |-> "ml",
     substance |-> <<"m", "e", "t", "h">>,
     route |-> <<"c", "h", "e", "w", "e", "d">>,
     trail |-> <<>>],
    \* '  20.mg meth oral\n'
    [lead |-> <<" ", " ">>,
     amt |-> <<"2", "0", ".">>,
     unit |-> "mg",
     substance |-> <<"m", "e", "t", "h">>,
     route |-> <<"o", "r", "a", "l">>,
     trail |-> <<"\n">>],
    \* '0mg meth oral'
    [lead |-> <<>>,
     amt |-> <<"0">>,
     unit |-> "mg",
     substance |-> <<"m", "e", "t", "h">>,
     route |-> <<"o", "r", "a", "l">>,
     trail |-> <<>>],
    \* '20mg METH snorted'
    [lead |-> <<>>,
     amt |-> <<"2", "0">>,
     unit |-> "mg",
     substance |-> <<"M", "E", "T", "H">>,
     route |-> <<"s", "n", "o", "r", "t", "e", "d">>,
     trail |-> <<>>],
    \* '20mg meth Oral'
    [lead |-> <<>>,
     amt |-> <<"2", "0">>,
     unit |-> "mg",
     substance |-> <<"m", "e", "t", "h">>,
     route |-> <<"O", "r", "a", "l">>,
     trail |-> <<>>],
    \* '20mg meth intravenous'
    [lead |-> <<>>,
     amt |-> <<"2", "0">>,
     unit |-> "mg",
     substance |-> <<"m", "e", "t", "h">>,
     route |-> <<"i", "n", "t", "r", "a", "v", "e", "n", "o", "u", "s">>,
     trail |-> <<>>],
    \* '20mg meth iv'
    [lead |-> <<>>,
     amt |-> <<"2", "0">>,
     unit |-> "mg",
     substance |-> <<"m", "e", "t", "h">>,
     route |-> <<"i", "v">>,
     trail |-> <<>>]}

\* Verb-grammar dose strings, token by token.
VerbInputs ==
  { \* '@ate 20mg Meth'
    [verb |-> <<"@", "a", "t", "e">>,
     amt |-> <<"2", "0">>,
     unit |-> "mg",
     substance |-> <<"M", "e", "t", "h">>],
    \* '@sniffed 0.02g meth'
    [verb |-> <<"@", "s", "n", "i", "f", "f", "e", "d">>,
     amt |-> <<"0", ".", "0", "2">>,
     unit |-> "g",
     substance |-> <<"m", "e", "t", "h">>],
    \* '@flew 20mg meth'
    [verb |-> <<"@", "f", "l", "e", "w">>,
     amt |-> <<"2", "0">>,
     unit |-> "mg",
     substance |-> <<"m", "e", "t", "h">>],
    \* '@Ate 20mg meth'
    [verb |-> <<"@", "A", "t", "e">>,
     amt |-> <<"2", "0">>,
     unit |-> "mg",
     substance |-> <<"m", "e", "t", "h">>]}

\* Strings of neither grammar.
MalformedStrings ==
  { \* '20 mg meth oral'
    <<"2", "0", " ", "m", "g", " ", "m", "e", "t", "h", " ", "o", "r", "a", "l">>,
    \* ''
    <<>>,
    \* '-5mg meth oral'
    <<"-", "5", "m", "g", " ", "m", "e", "t", "h", " ", "o", "r", "a", "l">>,
    \* '@ate 20mg'
    <<"@", "a", "t", "e", " ", "2", "0", "m", "g">>,
    \* '20mg meth'
    <<"2", "0", "m", "g", " ", "m", "e", "t", "h">>,
    \* '@ate 20mg meth oral'
    <<"@", "a", "t", "e", " ", "2", "0", "m", "g", " ", "m", "e", "t", "h", " ", "o", "r", "a", "l">>,
    \* '.5mg meth oral'
    <<".", "5", "m", "g", " ", "m", "e", "t", "h", " ", "o", "r", "a", "l">>,
    \* '20mg meth @ate'
    <<"2", "0", "m", "g", " ", "m", "e", "t", "h", " ", "@", "a", "t", "e">>,
    \* '20kg meth oral'
    <<"2", "0", "k", "g", " ", "m", "e", "t", "h", " ", "o", "r", "a", "l">>,
    \* 'ate 20mg meth'
    <<"a", "t", "e", " ", "2", "0", "m", "g", " ", "m", "e", "t", "h">>}

StandardText(i) ==
  i.lead \o i.amt \o UnitChars(i.unit) \o <<" ">> \o i.substance \o <<" ">> \o i.route \o i.trail

VerbText(i) ==
  i.verb \o <<" ">> \o i.amt \o UnitChars(i.unit) \o <<" ">> \o i.substance

\* Dose strings logged while the parser is exercised.
DoseStrings ==
  {StandardText(i) : i \in StandardInputs} \cup {VerbText(i) : i \in VerbInputs}
    \cup MalformedStrings

\* Arguments (substance, amount, route) of log_dose while the filter chain is exercised.
StoreDoses ==
  {<<"lsd", Rat(20, 1), "bogus">>}

\* Arguments (substance, amount, route) of log_dose while logging is exercised.
LogDoses ==
  {<<"meth", Rat(20, 1), "oral">>,
   <<"meth", Rat(20, 1), "snorted">>,
   <<"meth", Rat(20, 1), "@ate">>,
   <<"meth", Rat(20, 1), "intravenous">>,
   <<"meth", Rat(20, 1), "other">>,
   <<"meth", Rat(20, 1), "bogus">>,
   <<"meth", Rat(20, 1), "Oral">>,
   <<"meth", Rat(20, 1), "">>,
   <<"meth", Rat(0, 1), "swallowed">>,
   <<"METH", Rat(20, 1), "oral">>}

Substances == {"methamphetamine", "lsd"}

\* Substances given to only while logging is exercised.
LogSubstances == {"meth", "lsd"}

Routes == {"oral", "other"}

Times == 0..MaxTime

\* datetime.year of a tick: tick 0 is the start of 2024.
YearOf(t) == 2024 + (t \div TicksPerYear)

Years == {YearOf(t) : t \in 0..(MaxTime + TicksPerYear)}

(***************************************************************************)
(* Python values returned to the caller, and the outcome of a call.        *)
(***************************************************************************)
Self == [type |-> "User"]

None == [type |-> "NoneType"]

Timedelta(d) == [type |-> "timedelta", ticks |-> d]

Return(v) == [exc |-> "none", value |-> v]

Raise(e) == [exc |-> e, value |-> None]

DoseEntry(id, substance, amount, route, timestamp, unit) ==
  [id |-> id, substance |-> substance, amount |-> amount, route |-> route,
   timestamp |-> timestamp, unit |-> unit]

\* What every call records about itself for the properties below: the call,
\* the state it started from (with the substances of the call before it when
\* that was only(...)), and whether it repeats the call before it.
Called(op, arg) ==
  /\ call' = [op |-> op, arg |-> arg]
  /\ pre' = [entries |-> entries, filtered_entries |-> filtered_entries, now |-> now,
             only |-> IF call.op = "only" THEN {call.arg} ELSE {}]
  /\ same' = (call.op = op /\ call.arg = arg)

(***************************************************************************)
(* Mutators.                                                               *)
(***************************************************************************)
\* ToMg with the microgram conversion inverted.
ToMg_UgTimes(amount, unit) ==
  IF unit = "ug" THEN RatMul(amount, 1000)
  ELSE IF unit = "g" THEN RatMul(amount, 1000)
  ELSE amount

\* Unit conversion of log_dose_string, lines 96-100.
ToMg(amount, unit) ==
  IF unit = "ug" THEN RatDiv(amount, 1000)
  ELSE IF unit = "g" THEN RatMul(amount, 1000)
  ELSE amount

\* LogParsed storing the token as written instead of its canonical route.
LogParsed_RawRoute(p) ==
  IF p.exc # "none" THEN [exc |-> p.exc, entry |-> None]
  ELSE [exc |-> "none",
        entry |-> DoseEntry(Len(entries) + 1, p.substance, ToMg(p.amount, p.unit),
                            p.route, now, "mg")]

\* The try block of log_dose_string after the parse p: the exception it ends
\* with ("none" when it runs to the append) and the entry it appends.
\* ROUTE_ALIASES.get(route_or_verb) is falsy for a missing key (None) and
\* for an empty route name.
LogParsed(p) ==
  IF p.exc # "none" THEN [exc |-> p.exc, entry |-> None]
  ELSE IF p.route \notin DOMAIN ROUTE_ALIASES \/ ROUTE_ALIASES[p.route] = ""
  THEN [exc |-> "DoseParsingError", entry |-> None]
  ELSE [exc |-> "none",
        entry |-> DoseEntry(Len(entries) + 1, p.substance, ToMg(p.amount, p.unit),
                            ROUTE_ALIASES[p.route], now, "mg")]

\* The body of the try block of log_dose_string.
LogStringBody(dose_string) == LogParsed(parse_dose_string(dose_string))

\* Handled without the try block: nothing is caught.
Handled_NoTry(exc) == FALSE

\* The except clauses of log_dose_string: DoseParsingError, then Exception.
Handled(exc) == exc \in {"DoseParsingError", "Exception"}

\* LogStringEnds appending the new entry to the working view as well.
LogStringEnds_AlsoToView(dose_string, body) ==
  /\ Len(entries) < MaxEntries
  /\ Called("log_dose_string", dose_string)
  /\ entries' = IF body.exc = "none" THEN Append(entries, body.entry) ELSE entries
  /\ filtered_entries' = IF body.exc = "none" THEN Append(filtered_entries, body.entry)
                         ELSE filtered_entries
  /\ outcome' = IF body.exc = "none" \/ Handled(body.exc)
                THEN Return(Self) ELSE Raise(body.exc)
  /\ UNCHANGED now

\* The effect of log_dose_string once the try block ended as body.
LogStringEnds(dose_string, body) ==
  /\ Len(entries) < MaxEntries
  /\ Called("log_dose_string", dose_string)
  /\ entries' = IF body.exc = "none" THEN Append(entries, body.entry) ELSE entries
  /\ outcome' = IF body.exc = "none" \/ Handled(body.exc)
                THEN Return(Self) ELSE Raise(body.exc)
  /\ UNCHANGED <<filtered_entries, now>>

\* User.log_dose_string
log_dose_string(dose_string) == LogStringEnds(dose_string, LogStringBody(dose_string))

\* LogDoseRoute keeping an unknown token instead of defaulting to 'other'.
LogDoseRoute_KeepUnknown(route) ==
  IF route \in DOMAIN ROUTE_ALIASES THEN ROUTE_ALIASES[route] ELSE route

\* LogDoseRoute storing the token it is given.
LogDoseRoute_AsGiven(route) == route

\* LogDoseRoute also accepting the keys of ADMINISTRATION_METHODS.
LogDoseRoute_KeysToo(route) ==
  IF route \in DOMAIN ADMINISTRATION_METHODS THEN route
  ELSE IF route \in DOMAIN ROUTE_ALIASES THEN ROUTE_ALIASES[route]
  ELSE "other"

\* The route stored by log_dose, lines 121-125.
LogDoseRoute(route) ==
  LET r == IF route \notin DOMAIN ROUTE_ALIASES THEN "other" ELSE route
  IN IF r \in DOMAIN ROUTE_ALIASES THEN ROUTE_ALIASES[r] ELSE "other"

\* log_dose appending to the working view instead of the history.
log_dose_ToView(substance, amount, route) ==
  /\ Len(entries) < MaxEntries
  /\ Called("log_dose", <<substance, amount, route>>)
  /\ filtered_entries' =
       Append(filtered_entries, DoseEntry(Len(entries) + 1, substance, amount,
                                          LogDoseRoute(route), now, "mg"))
  /\ outcome' = Return(Self)
  /\ UNCHANGED <<entries, now>>

\* User.log_dose
log_dose(substance, amount, route) ==
  /\ Len(entries) < MaxEntries
  /\ Called("log_dose", <<substance, amount, route>>)
  /\ entries' = Append(entries, DoseEntry(Len(entries) + 1, substance, amount,
                                          LogDoseRoute(route), now, "mg"))
  /\ outcome' = Return(Self)
  /\ UNCHANGED <<filtered_entries, now>>

\* The wall clock read by datetime.now() advances.
Tick ==
  /\ now < MaxTime
  /\ now' = now + 1
  /\ UNCHANGED <<entries, filtered_entries, call, pre, same, outcome>>

(***************************************************************************)
(* Filter chain.                                                           *)
(***************************************************************************)
Filter(op, arg, view) ==
  /\ Called(op, arg)
  /\ filtered_entries' = view
  /\ outcome' = Return(Self)
  /\ UNCHANGED <<entries, now>>

\* User.only
only(substances) ==
  Filter("only", substances,
         SelectSeq(entries, LAMBDA entry : entry.substance \in substances))

\* via selecting from the full history.
via_FromHistory(routes) ==
  Filter("via", routes,
         SelectSeq(entries, LAMBDA entry : entry.route \in routes))

\* User.via
via(routes) ==
  Filter("via", routes,
         SelectSeq(filtered_entries, LAMBDA entry : entry.route \in routes))

\* list[start:] with Python's handling of a negative or too large start.
SliceFrom(list, start) ==
  LET n == Len(list)
      from == IF start < 0 THEN (IF start + n < 0 THEN 0 ELSE start + n)
              ELSE (IF start > n THEN n ELSE start)
  IN SubSeq(list, from + 1, n)

\* last cutting the history itself down to its tail.
last_TruncatesHistory(n) ==
  /\ Called("last", n)
  /\ entries' = SliceFrom(entries, -n)
  /\ filtered_entries' = SliceFrom(filtered_entries, -n)
  /\ outcome' = Return(Self)
  /\ UNCHANGED now

\* User.last
last(n) == Filter("last", n, SliceFrom(filtered_entries, -n))

\* from_year narrowing the current view.
from_year_Narrowing(year) ==
  Filter("from_year", year,
         SelectSeq(filtered_entries, LAMBDA entry : YearOf(entry.timestamp) = year))

\* User.from_year
from_year(year) ==
  Filter("from_year", year,
         SelectSeq(entries, LAMBDA entry : YearOf(entry.timestamp) = year))

\* User.from_date_range
from_date_range(start_date, end_date) ==
  Filter("from_date_range", <<start_date, end_date>>,
         SelectSeq(entries, LAMBDA entry :
                     start_date <= entry.timestamp /\ entry.timestamp <= end_date))

(***************************************************************************)
(* Aggregate readers.                                                      *)
(***************************************************************************)
RECURSIVE SumAmounts(_)
\* sum(entry.amount for entry in view)
SumAmounts(view) ==
  IF view = <<>> THEN Zero
  ELSE RatAdd(SumAmounts(SubSeq(view, 1, Len(view) - 1)), view[Len(view)].amount)

\* a / k on floats.
FloatDiv(a, k) == IF k = 0 THEN Raise("ZeroDivisionError") ELSE Return(RatDiv(a, k))

\* list[i] with Python's negative indices.
PyIndex(list, i) ==
  LET j == IF i < 0 THEN i + Len(list) ELSE i
  IN IF j < 0 \/ j >= Len(list) THEN Raise("IndexError") ELSE Return(list[j + 1])

RECURSIVE Insert(_, _)
Insert(sorted, x) ==
  IF sorted = <<>> THEN <<x>>
  ELSE IF RatLeq(Head(sorted), x) THEN <<Head(sorted)>> \o Insert(Tail(sorted), x)
  ELSE <<x>> \o sorted

RECURSIVE Sorted(_)
\* sorted(amounts)
Sorted(amounts) ==
  IF amounts = <<>> THEN <<>>
  ELSE Insert(Sorted(SubSeq(amounts, 1, Len(amounts) - 1)), amounts[Len(amounts)])

\* max(view, key=timestamp): the first entry with the largest timestamp.
MaxByTimestamp(view) ==
  IF view = <<>> THEN Raise("ValueError")
  ELSE LET best == {i \in 1..Len(view) :
                      \A j \in 1..Len(view) : view[j].timestamp <= view[i].timestamp}
       IN Return(view[CHOOSE i \in best : \A j \in best : i <= j])

\* TallyEach assigning each amount instead of adding it.
TallyEach_LastWins(view) ==
  LET subs == {view[i].substance : i \in 1..Len(view)}
      routesOf(s) == {view[i].route : i \in {k \in 1..Len(view) : view[k].substance = s}}
      lastOf(s, r) ==
        CHOOSE i \in 1..Len(view) :
          /\ view[i].substance = s /\ view[i].route = r
          /\ \A j \in 1..Len(view) :
               (view[j].substance = s /\ view[j].route = r) => j <= i
  IN Return([s \in subs |-> [r \in routesOf(s) |-> view[lastOf(s, r)].amount]])

\* The value of tally_each on a view.
TallyEach(view) ==
  LET subs == {view[i].substance : i \in 1..Len(view)}
      routesOf(s) == {view[i].route : i \in {k \in 1..Len(view) : view[k].substance = s}}
  IN Return([s \in subs |->
               [r \in routesOf(s) |->
                  SumAmounts(SelectSeq(view, LAMBDA entry :
                               entry.substance = s /\ entry.route = r))]])

\* AverageDose without the guard for the empty view.
AverageDose_NoGuard(view) == FloatDiv(SumAmounts(view), Len(view))

\* The value of average_dose on a view.
AverageDose(view) ==
  IF view = <<>> THEN Return(Zero)
  ELSE FloatDiv(SumAmounts(view), Len(view))

\* The value of last_dose_time on a view, read at time t.
LastDoseTime(view, t) ==
  IF view = <<>> THEN Return(None)
  ELSE LET last_dose == MaxByTimestamp(view)
       IN IF last_dose.exc # "none" THEN Raise(last_dose.exc)
          ELSE Return(Timedelta(t - last_dose.value.timestamp))

\* doses[mid] if n % 2 else (doses[mid-1] + doses[mid]) / 2
MiddleOf(doses) ==
  LET n == Len(doses)
      mid == n \div 2
      lo == PyIndex(doses, mid - 1)
      hi == PyIndex(doses, mid)
  IN IF n % 2 = 1 THEN hi
     ELSE IF lo.exc # "none" THEN lo
     ELSE IF hi.exc # "none" THEN hi
     ELSE FloatDiv(RatAdd(lo.value, hi.value), 2)

\* MedianDose taking the middle of the amounts in view order, unsorted.
MedianDose_Unsorted(view) ==
  IF view = <<>> THEN Return(Zero)
  ELSE MiddleOf([i \in 1..Len(view) |-> view[i].amount])

\* The value of median_dose on a view.
MedianDose(view) ==
  IF view = <<>> THEN Return(Zero)
  ELSE MiddleOf(Sorted([i \in 1..Len(view) |-> view[i].amount]))

\* The value of total_dose on a view.
TotalDose(view) == Return(SumAmounts(view))

Reader(op, result) ==
  /\ Called(op, <<>>)
  /\ outcome' = result
  /\ UNCHANGED <<entries, filtered_entries, now>>

\* User.tally_each
tally_each == Reader("tally_each", TallyEach(filtered_entries))

\* User.average_dose
average_dose == Reader("average_dose", AverageDose(filtered_entries))

\* User.last_dose_time
last_dose_time == Reader("last_dose_time", LastDoseTime(filtered_entries, now))

RECURSIVE InsertByAmount(_, _)
InsertByAmount(sorted, e) ==
  IF sorted = <<>> THEN <<e>>
  ELSE IF RatLeq(Head(sorted).amount, e.amount)
  THEN <<Head(sorted)>> \o InsertByAmount(Tail(sorted), e)
  ELSE <<e>> \o sorted

RECURSIVE SortedByAmount(_)
SortedByAmount(view) ==
  IF view = <<>> THEN <<>>
  ELSE InsertByAmount(SortedByAmount(SubSeq(view, 1, Len(view) - 1)), view[Len(view)])

\* median_dose sorting the view in place (filtered_entries.sort) before reading it.
median_dose_SortsInPlace ==
  /\ Called("median_dose", <<>>)
  /\ outcome' = MedianDose(filtered_entries)
  /\ filtered_entries' = SortedByAmount(filtered_entries)
  /\ UNCHANGED <<entries, now>>

\* User.median_dose
median_dose == Reader("median_dose", MedianDose(filtered_entries))

\* User.total_dose
total_dose == Reader("total_dose", TotalDose(filtered_entries))

(***************************************************************************)
(* Specifications.                                                         *)
(***************************************************************************)
\* User(name): both lists start empty.
Init ==
  /\ entries = <<>>
  /\ filtered_entries = <<>>
  /\ now = 0
  /\ call = [op |-> "User", arg |-> <<>>]
  /\ pre = [entries |-> <<>>, filtered_entries |-> <<>>, now |-> 0, only |-> {}]
  /\ same = FALSE
  /\ outcome = Return(Self)

\* The entry store with its filter chain and readers.
Next ==
  \/ \E s \in StoreStrings : log_dose_string(s)
  \/ \E d \in StoreDoses : log_dose(d[1], d[2], d[3])
  \/ \E S \in SUBSET Substances : only(S)
  \/ \E R \in SUBSET Routes : via(R)
  \/ \E n \in (-1)..MaxN : last(n)
  \/ \E y \in Years : from_year(y)
  \/ \E a \in Times : \E b \in Times : from_date_range(a, b)
  \/ tally_each
  \/ average_dose
  \/ last_dose_time
  \/ median_dose
  \/ total_dose
  \/ Tick

Spec == Init /\ [][Next]_vars

\* Amounts, substances and routes of the entries a store is constructed with
\* when only the readers are exercised.
AggAmounts == {Rat(10, 1), Rat(20, 1), Rat(30, 1)}

AggRoutes == {"oral", "other"}

\* The lists of at most MaxView entries, numbered in list order.
AggViews ==
  UNION {[1..n -> AggAmounts \X AggRoutes] : n \in 0..MaxView}

AggEntries(v) ==
  [i \in 1..Len(v) |-> DoseEntry(i, "lsd", v[i][1], v[i][2], 0, "mg")]

\* User(name, entries, filtered_entries): a store constructed with a history
\* and a view of all of it.
InitAgg ==
  /\ \E v \in AggViews :
       /\ entries = AggEntries(v)
       /\ filtered_entries = AggEntries(v)
       /\ pre = [entries |-> AggEntries(v), filtered_entries |-> AggEntries(v),
                 now |-> 0, only |-> {}]
  /\ now = 0
  /\ call = [op |-> "User", arg |-> <<>>]
  /\ same = FALSE
  /\ outcome = Return(Self)

\* The aggregate readers on a constructed store.
NextAgg ==
  \/ tally_each
  \/ average_dose
  \/ last_dose_time
  \/ median_dose
  \/ total_dose

SpecAgg == InitAgg /\ [][NextAgg]_vars

\* Logging from text and from explicit parameters, over the wide inputs.
NextLog ==
  \/ \E s \in DoseStrings : log_dose_string(s)
  \/ \E d \in LogDoses : log_dose(d[1], d[2], d[3])
  \/ \E S \in SUBSET LogSubstances : only(S)
  \/ Tick

SpecLog == Init /\ [][NextLog]_vars

\* log_dose given each key of ADMINISTRATION_METHODS as its route.
NextRoutes ==
  \/ \E r \in DOMAIN ADMINISTRATION_METHODS : log_dose("meth", Rat(20, 1), r)
  \/ Tick

SpecRoutes == Init /\ [][NextRoutes]_vars

(***************************************************************************)
(* Vocabulary of the properties.                                           *)
(***************************************************************************)
\* The canonical route that lists the token among its aliases.
Owner(token) ==
  CHOOSE r \in DOMAIN ADMINISTRATION_METHODS : token \in Range(ADMINISTRATION_METHODS[r])

Declared(token) ==
  \E r \in DOMAIN ADMINISTRATION_METHODS : token \in Range(ADMINISTRATION_METHODS[r])

\* amt converted to mg as the specification states it.
InMg(amt, unit) ==
  CASE unit = "ug" -> Rat(amt.num, amt.den * 1000)
    [] unit = "g" -> Rat(amt.num * 1000, amt.den)
    [] unit \in {"mg", "ml"} -> amt

\* Strings that must not be logged.
BadStrings ==
  MalformedStrings
    \cup {StandardText(i) : i \in {j \in StandardInputs : ~Declared(Join(j.route))}}
    \cup {VerbText(i) : i \in {j \in VerbInputs : ~Declared(Join(j.verb))}}

\* The call appended exactly one entry at the end of the history.
AppendedOne ==
  /\ Len(entries) = Len(pre.entries) + 1
  /\ SubSeq(entries, 1, Len(pre.entries)) = pre.entries

NewEntry == entries[Len(entries)]

\* view holds exactly the entries of history that satisfy Keep, in history order.
ExactlyInOrder(view, history, Keep(_)) ==
  /\ \A i \in 1..Len(history) :
       Keep(history[i]) <=> \E j \in 1..Len(view) : view[j] = history[i]
  /\ \A j \in 1..Len(view) : \E i \in 1..Len(history) : view[j] = history[i]
  /\ \A j, k \in 1..Len(view) : j < k => view[j].id < view[k].id

FilterOps == {"only", "via", "last", "from_year", "from_date_range"}

(***************************************************************************)
(* Properties.                                                             *)
(***************************************************************************)
\* C1: a dose string of neither grammar, or with an undeclared route or verb
\* token, makes log_dose_string return normally, append nothing and leave
\* the working view as it was.
C1_BadStringIsNoOp ==
  (call.op = "log_dose_string" /\ call.arg \in BadStrings) =>
    /\ outcome = Return(Self)
    /\ entries = pre.entries
    /\ filtered_entries = pre.filtered_entries

\* A bad string was logged after good ones, with a populated view.
C1_Witness ==
  /\ call.op = "log_dose_string"
  /\ call.arg \in BadStrings
  /\ entries # <<>>
  /\ filtered_entries # <<>>

\* C2: a standard-grammar string with a declared route token appends exactly
\* one entry: lower-cased substance, the canonical route owning the token,
\* and the amount converted to mg (ug / 1000, g * 1000, mg and ml unchanged).
C2_StandardStringLogged ==
  \A i \in StandardInputs :
    (call.op = "log_dose_string" /\ call.arg = StandardText(i) /\ Declared(Join(i.route))) =>
      /\ AppendedOne
      /\ NewEntry.substance = Join(Lower(i.substance))
      /\ NewEntry.route = Owner(Join(i.route))
      /\ NewEntry.amount = InMg(Float(i.amt), i.unit)

\* A gram dose with a capitalised substance and a route alias was logged as
\* 20 mg by the oral route, after an earlier entry.
C2_Witness ==
  /\ call.op = "log_dose_string"
  /\ \E i \in StandardInputs :
       /\ call.arg = StandardText(i)
       /\ i.unit = "g"
       /\ Join(i.substance) # Join(Lower(i.substance))
       /\ Join(i.route) # Owner(Join(i.route))
  /\ Len(entries) > 1
  /\ NewEntry.amount = Rat(20, 1)
  /\ NewEntry.route = "oral"

\* C3: a verb-grammar string appends exactly one entry with the canonical
\* route owning the verb when the verb is declared, and nothing otherwise.
C3_VerbStringLogged ==
  \A i \in VerbInputs :
    (call.op = "log_dose_string" /\ call.arg = VerbText(i)) =>
      IF Declared(Join(i.verb))
      THEN AppendedOne /\ NewEntry.route = Owner(Join(i.verb))
      ELSE entries = pre.entries

\* '@sniffed ...' was logged as insufflation.
C3_Witness ==
  /\ call.op = "log_dose_string"
  /\ \E i \in VerbInputs : call.arg = VerbText(i) /\ Join(i.verb) = "@sniffed"
  /\ Len(entries) = Len(pre.entries) + 1
  /\ NewEntry.route = "insufflation"

\* C4: log_dose never fails; it appends exactly one entry whose route is the
\* canonical route owning the token, or 'other' for an undeclared token.
C4_LogDoseNeverFails ==
  call.op = "log_dose" =>
    /\ outcome = Return(Self)
    /\ AppendedOne
    /\ NewEntry.route = IF Declared(call.arg[3]) THEN Owner(call.arg[3]) ELSE "other"

\* log_dose stored an undeclared token as 'other' after a declared one.
C4_Witness ==
  /\ call.op = "log_dose"
  /\ ~Declared(call.arg[3])
  /\ NewEntry.route = "other"
  /\ \E k \in 1..Len(entries) : entries[k].route = "insufflation"

\* C5: every entry of the working view is an entry of the full history.
C5_ViewWithinHistory ==
  \A j \in 1..Len(filtered_entries) :
    \E i \in 1..Len(entries) : filtered_entries[j] = entries[i]

\* A narrowed, non-empty view of a history that grew after it was filtered.
C5_Witness ==
  /\ filtered_entries # <<>>
  /\ Len(filtered_entries) < Len(entries)
  /\ call.op \in {"log_dose", "log_dose_string"}
  /\ Len(entries) = Len(pre.entries) + 1

\* C6: only(S) followed by via(R) leaves exactly the history entries with
\* substance in S and route in R, in history order.
C6_OnlyThenVia ==
  (call.op = "via" /\ pre.only # {}) =>
    \A S \in pre.only :
      LET Keep(e) == e.substance \in S /\ e.route \in call.arg
      IN ExactlyInOrder(filtered_entries, entries, Keep)

\* only(S) then via(R) left a non-empty view, while the history holds
\* another entry with a route in R whose substance is outside S.
C6_Witness ==
  /\ call.op = "via"
  /\ pre.only # {}
  /\ filtered_entries # <<>>
  /\ \E i \in 1..Len(entries) :
       /\ entries[i].route \in call.arg
       /\ \A S \in pre.only : entries[i].substance \notin S

\* C7: from_year(y) and from_date_range(start, end) select from the full
\* history, whatever the working view was: the entries of year y, and the
\* entries with start <= timestamp <= end.
C7_YearAndRangeFromHistory ==
  /\ call.op = "from_year" =>
       LET Keep(e) == YearOf(e.timestamp) = call.arg
       IN ExactlyInOrder(filtered_entries, entries, Keep)
  /\ call.op = "from_date_range" =>
       LET Keep(e) == call.arg[1] <= e.timestamp /\ e.timestamp <= call.arg[2]
       IN ExactlyInOrder(filtered_entries, entries, Keep)

\* from_year brought back an entry that the narrowed view before the call
\* did not hold, and left out an entry of another year.
C7_Witness ==
  /\ call.op = "from_year"
  /\ pre.filtered_entries # <<>>
  /\ \E j \in 1..Len(filtered_entries) :
       \A k \in 1..Len(pre.filtered_entries) :
         pre.filtered_entries[k] # filtered_entries[j]
  /\ Len(filtered_entries) < Len(entries)

\* from_date_range brought back an entry that the narrowed view before the
\* call did not hold; the entry lies on a bound of the range.
C7_RangeWitness ==
  /\ call.op = "from_date_range"
  /\ pre.filtered_entries # <<>>
  /\ \E j \in 1..Len(filtered_entries) :
       /\ \A k \in 1..Len(pre.filtered_entries) :
            pre.filtered_entries[k] # filtered_entries[j]
       /\ filtered_entries[j].timestamp = call.arg[2]

\* The final k entries of a view.
Tail_(view, k) == SubSeq(view, Len(view) - k + 1, Len(view))

\* C8: for n >= 0, last(n) leaves the final min(n, |V|) entries of the view
\* V it was called on; last(0) leaves an empty view.
C8_LastKeepsTail ==
  (call.op = "last" /\ call.arg >= 0) =>
    LET V == pre.filtered_entries
        k == IF call.arg < Len(V) THEN call.arg ELSE Len(V)
    IN filtered_entries = Tail_(V, k)

\* C9: a filter call repeated with the same arguments, with no log call in
\* between, returns normally and leaves the view of the first call.
C9_FilterIdempotent ==
  (same /\ call.op \in FilterOps) =>
    /\ outcome = Return(Self)
    /\ filtered_entries = pre.filtered_entries

\* C10: on an empty working view tally_each returns an empty mapping,
\* average_dose, median_dose and total_dose return 0, last_dose_time None.
C10_ReadersOnEmptyView ==
  filtered_entries = <<>> =>
    /\ call.op = "tally_each" => outcome = Return(<<>>)
    /\ call.op \in {"average_dose", "median_dose", "total_dose"} => outcome = Return(Zero)
    /\ call.op = "last_dose_time" => outcome = Return(None)

\* A reader was called on an empty view of a non-empty history.
C10_Witness ==
  /\ call.op \in {"tally_each", "average_dose", "median_dose", "total_dose",
                  "last_dose_time"}
  /\ filtered_entries = <<>>
  /\ entries # <<>>

\* The amounts of a view, in view order.
AmountsOf(view) == [i \in 1..Len(view) |-> view[i].amount]

RatLess(a, b) == RatLeq(a, b) /\ a # b

\* The k-th smallest amount of a non-empty view, counting repetitions.
KthSmallest(view, k) ==
  CHOOSE a \in Range(AmountsOf(view)) :
    /\ Cardinality({i \in 1..Len(view) : RatLess(view[i].amount, a)}) < k
    /\ k <= Cardinality({i \in 1..Len(view) : RatLeq(view[i].amount, a)})

\* The median of a non-empty view.
MedianOf(view) ==
  IF Len(view) % 2 = 1
  THEN KthSmallest(view, (Len(view) + 1) \div 2)
  ELSE RatDiv(RatAdd(KthSmallest(view, Len(view) \div 2),
                     KthSmallest(view, Len(view) \div 2 + 1)), 2)

\* C11: on a non-empty view median_dose returns the median of the amounts
\* whatever their order: the middle of the sorted amounts for an odd count,
\* the mean of the two middle ones for an even count ([10,20,30] gives 20,
\* [10,20] gives 15).
C11_MedianExact ==
  (call.op = "median_dose" /\ filtered_entries # <<>>) =>
    /\ outcome = Return(MedianOf(filtered_entries))
    /\ Range(AmountsOf(filtered_entries)) = {Rat(10, 1), Rat(20, 1)}
         /\ Len(filtered_entries) = 2 => outcome = Return(Rat(15, 1))
    /\ Range(AmountsOf(filtered_entries)) = {Rat(10, 1), Rat(20, 1), Rat(30, 1)}
         /\ Len(filtered_entries) = 3 => outcome = Return(Rat(20, 1))

\* median_dose returned 20 on a view whose amounts are 30, 10, 20 in that order.
C11_Witness ==
  /\ call.op = "median_dose"
  /\ AmountsOf(filtered_entries) = <<Rat(30, 1), Rat(10, 1), Rat(20, 1)>>
  /\ outcome = Return(Rat(20, 1))

RECURSIVE SumOver(_, _)
\* The sum of the amounts of the entries of view at the positions in I.
SumOver(view, I) ==
  IF I = {} THEN Zero
  ELSE LET i == CHOOSE x \in I : TRUE
       IN RatAdd(view[i].amount, SumOver(view, I \ {i}))

\* The (substance, route) keys of a tally.
TallyKeys(tally) == UNION {{<<s, r>> : r \in DOMAIN tally[s]} : s \in DOMAIN tally}

RECURSIVE SumValues(_, _)
\* The sum of the values of a tally at the keys in K.
SumValues(tally, K) ==
  IF K = {} THEN Zero
  ELSE LET k == CHOOSE x \in K : TRUE
       IN RatAdd(tally[k[1]][k[2]], SumValues(tally, K \ {k}))

\* C12: tally_each has a key (s, r) exactly when a view entry has substance s
\* and route r, with the sum of the amounts of those entries as value; the
\* values add up to total_dose(); and '20mg methamphetamine oral' logged on
\* a fresh store, then only('methamphetamine'), tallies to
\* {methamphetamine: {oral: 20}}.
C12_TallyExact ==
  call.op = "tally_each" =>
    /\ outcome.exc = "none"
    /\ DOMAIN outcome.value = {filtered_entries[i].substance : i \in 1..Len(filtered_entries)}
    /\ TallyKeys(outcome.value) =
         {<<filtered_entries[i].substance, filtered_entries[i].route>> :
            i \in 1..Len(filtered_entries)}
    /\ \A k \in TallyKeys(outcome.value) :
         outcome.value[k[1]][k[2]] =
           SumOver(filtered_entries,
                   {i \in 1..Len(filtered_entries) :
                      /\ filtered_entries[i].substance = k[1]
                      /\ filtered_entries[i].route = k[2]})
    /\ Return(SumValues(outcome.value, TallyKeys(outcome.value))) = TotalDose(filtered_entries)
    /\ (Len(entries) = 1 /\ entries[1].substance = "methamphetamine"
          /\ pre.only = {{"methamphetamine"}}) =>
         outcome = Return([methamphetamine |-> [oral |-> Rat(20, 1)]])

\* The round trip: one methamphetamine entry (logged from the only input that
\* names it, '20mg methamphetamine oral'), only('methamphetamine'), tally_each.
C12_Witness ==
  /\ call.op = "tally_each"
  /\ Len(entries) = 1
  /\ pre.only = {{"methamphetamine"}}
  /\ outcome = Return([methamphetamine |-> [oral |-> Rat(20, 1)]])

\* tally_each added up two view entries of the same substance and route.
C12_SumWitness ==
  /\ call.op = "tally_each"
  /\ Len(filtered_entries) = 2
  /\ Cardinality(TallyKeys(outcome.value)) = 1

ReaderOps == {"tally_each", "average_dose", "median_dose", "total_dose", "last_dose_time"}

\* C13: a call of tally_each, average_dose, median_dose, total_dose or
\* last_dose_time leaves the history and the working view, contents and
\* order, as they were.
C13_ReadersPure ==
  call.op \in ReaderOps =>
    /\ entries = pre.entries
    /\ filtered_entries = pre.filtered_entries

\* median_dose read a view whose amounts are in descending order and left it so.
C13_Witness ==
  /\ call.op = "median_dose"
  /\ Len(filtered_entries) = 2
  /\ RatLess(filtered_entries[2].amount, filtered_entries[1].amount)
  /\ outcome.exc = "none"

LogOps == {"log_dose_string", "log_dose"}

IsPrefix(s, u) == Len(s) <= Len(u) /\ SubSeq(u, 1, Len(s)) = s

\* C14: the history is append-only: every step leaves the history it started
\* from as a prefix, with every entry's fields as they were; a step that
\* changes it is a log_dose_string or log_dose call appending exactly one
\* entry; no filter or reader call changes it.
C14_AppendOnly ==
  [][/\ IsPrefix(entries, entries')
     /\ entries' # entries =>
          /\ Len(entries') = Len(entries) + 1
          /\ call'.op \in LogOps
     /\ (call' # call /\ call'.op \in FilterOps \cup ReaderOps) => entries' = entries]_vars

\* Two entries logged at different times were followed by a filter call and
\* a reader call, and are still the history.
C14_Witness ==
  /\ call.op \in ReaderOps
  /\ Len(entries) = 2
  /\ entries[1].timestamp < entries[2].timestamp
  /\ filtered_entries # <<>>
  /\ Len(filtered_entries) < Len(entries)

\* C15: every entry of the history has an amount strictly greater than 0,
\* whether log_dose_string or log_dose created it.
C15_AmountsPositive ==
  \A i \in 1..Len(entries) : entries[i].amount.num > 0 /\ entries[i].amount.den > 0

\* The characters of the substance names that are logged.
Spelling(name) ==
  CASE name = "meth" -> <<"m", "e", "t", "h">>
    [] name = "METH" -> <<"M", "E", "T", "H">>
    [] name = "lsd" -> <<"l", "s", "d">>
    [] name = "methamphetamine" -> <<"m", "e", "t", "h", "a", "m", "p", "h", "e", "t", "a", "m", "i", "n", "e">>

\* C16: every entry of the history has a lower-cased substance name, whether
\* log_dose_string or log_dose created it, so that only(s) with a lower-case
\* s selects every dose logged under any spelling of s.
C16_SubstancesLowerCased ==
  /\ \A i \in 1..Len(entries) :
       Spelling(entries[i].substance) = Lower(Spelling(entries[i].substance))
  /\ call.op = "only" =>
       \A i \in 1..Len(entries) :
         Join(Lower(Spelling(entries[i].substance))) \in call.arg =>
           \E j \in 1..Len(filtered_entries) : filtered_entries[j] = entries[i]

\* The canonical routes that list a token among their aliases.
Owners(token) ==
  {r \in DOMAIN ADMINISTRATION_METHODS : \E k \in 1..Len(ADMINISTRATION_METHODS[r]) :
                                           ADMINISTRATION_METHODS[r][k] = token}

\* The token the last call of log_dose was given as its route.
GivenToken == IF call.op = "log_dose" THEN {call.arg[3]} ELSE {}

\* C17: every declared alias token is listed under exactly one canonical
\* route, ROUTE_ALIASES maps it to that route, and a token that is not
\* declared, such as one log_dose was given, is absent from ROUTE_ALIASES.
C17_RegistryWellFormed ==
  /\ \A a \in AliasTokens \cup GivenToken :
       IF Owners(a) = {}
       THEN a \notin DOMAIN ROUTE_ALIASES
       ELSE /\ Cardinality(Owners(a)) = 1
            /\ a \in DOMAIN ROUTE_ALIASES
            /\ Owners(a) = {ROUTE_ALIASES[a]}
  /\ \A a \in DOMAIN ROUTE_ALIASES : Owners(a) # {}

\* log_dose was given 'subcutaneous', which no route lists and ROUTE_ALIASES
\* lacks, after 'sublingual', which its own route lists and no other.
C17_Witness ==
  /\ call.op = "log_dose"
  /\ call.arg[3] = "subcutaneous"
  /\ Owners("subcutaneous") = {}
  /\ "subcutaneous" \notin DOMAIN ROUTE_ALIASES
  /\ Len(pre.entries) = 1
  /\ pre.entries[1].route = "sublingual"
  /\ Owners("sublingual") = {ROUTE_ALIASES["sublingual"]}

\* The filters that select from the full history.
RestartOps == {"only", "from_year", "from_date_range"}

CanonicalRoutes ==
  {"oral", "insufflation", "inhalation", "intravenous", "intramuscular",
   "subcutaneous", "rectal", "transdermal", "sublingual", "buccal", "other"}

\* C19: the route of every entry of the history is one of the eleven
\* canonical route identifiers, whichever method logged it.
C19_RoutesCanonical ==
  \A i \in 1..Len(entries) : entries[i].route \in CanonicalRoutes

\* log_dose was given the verb '@ate' and stored 'oral', in a history whose
\* earlier entry is stored as insufflation or intravenous.
C19_Witness ==
  /\ call.op = "log_dose"
  /\ call.arg[3] = "@ate"
  /\ call.arg[3] \notin CanonicalRoutes
  /\ AppendedOne
  /\ NewEntry.route = "oral"
  /\ Len(pre.entries) = 1
  /\ pre.entries[1].route \in {"insufflation", "intravenous"}

\* The canonical identifiers listed among their own aliases, and the others.
SelfAliased ==
  {"oral", "insufflation", "inhalation", "rectal", "transdermal", "sublingual",
   "buccal"}

NotAliased == {"intravenous", "intramuscular", "subcutaneous", "other"}

\* C20: log_dose stores a canonical identifier that is an alias of itself
\* as itself, and stores 'other' for a canonical identifier that is not a
\* declared alias.
C20_LogDoseViaAliasesOnly ==
  call.op = "log_dose" =>
    /\ call.arg[3] \in SelfAliased => AppendedOne /\ NewEntry.route = call.arg[3]
    /\ call.arg[3] \in NotAliased => AppendedOne /\ NewEntry.route = "other"

\* log_dose(..., 'intravenous') stored 'other' after log_dose(..., 'buccal')
\* stored 'buccal'.
C20_Witness ==
  /\ call.op = "log_dose"
  /\ call.arg[3] = "intravenous"
  /\ NewEntry.route = "other"
  /\ Len(pre.entries) = 1
  /\ pre.entries[1].route = "buccal"
  /\ SelfAliased \cup NotAliased = DOMAIN ADMINISTRATION_METHODS

====
